---------------------------- MODULE Spec2Model ----------------------------
(***************************************************************************)
(* Event correlation and classification engine of the WebMCP debugger      *)
(* panel: mergeEvents (panel/src/components/TimelineEntry.tsx) and the     *)
(* event utilities it imports (event-utils: getCategory, getEventStatus,   *)
(* isEventError).                                                          *)
(*                                                                         *)
(* mergeEvents is a single pass over the input array.  The model runs the  *)
(* pass one loop iteration per step; the input array is drawn one event at *)
(* a time, so the state after n steps is the state of the pass over the    *)
(* stream `events` of length n, and `entries` is what mergeEvents returns  *)
(* for that stream.                                                        *)
(*                                                                         *)
(* JavaScript values.  An optional field is a sequence: <<>> when the      *)
(* field is undefined, <<v>> when it holds v.  Entries hold references to  *)
(* event objects; a reference is the position of the event in `events`     *)
(* (1-based), and 0 stands for an undefined response.                      *)
(***************************************************************************)
EXTENDS Integers, Sequences, FiniteSets, TLC

VARIABLES events, entries, pending, nextId

vars == <<events, entries, pending, nextId>>

(* Longest input stream explored. *)
MaxLen == 4

-----------------------------------------------------------------------------
(* JavaScript helpers *)

Undefined == <<>>

(* Mutant of StringOrEmpty: String(x), without the default. *)
StringOrEmpty_NoDefault(x) == IF x = Undefined THEN "undefined" ELSE x[1]

(* String(x ?? "") for an optional string field. *)
StringOrEmpty(x) == IF x = Undefined THEN "" ELSE x[1]

(* Properties every object literal inherits from Object.prototype, with    *)
(* the string a template literal renders them as.  All of them are truthy  *)
(* and none is nullish.                                                    *)
OBJECT_PROTOTYPE ==
  [ constructor    |-> "function Object() { [native code] }",
    toString       |-> "function toString() { [native code] }",
    valueOf        |-> "function valueOf() { [native code] }",
    hasOwnProperty |-> "function hasOwnProperty() { [native code] }" ]

(* obj[key] on an object literal: the own property, else the inherited     *)
(* one, else undefined.                                                    *)
Get(obj, key) ==
  IF key \in DOMAIN obj THEN <<obj[key]>>
  ELSE IF key \in DOMAIN OBJECT_PROTOTYPE THEN <<OBJECT_PROTOTYPE[key]>>
  ELSE Undefined

-----------------------------------------------------------------------------
(* event-utils *)

EventCategory == {"AI", "Tool", "WebMCP", "Event", "System"}

CATEGORY_TYPES ==
  [ AI     |-> {"SESSION_CREATED", "PROMPT_SENT", "PROMPT_RESPONSE",
                "PROMPT_ERROR", "STREAM_START", "STREAM_END"},
    Tool   |-> {"TOOL_CALL", "TOOL_RESULT_AI"},
    WebMCP |-> {"TOOL_REGISTERED", "TOOL_UNREGISTERED", "CONTEXT_CLEARED"},
    Event  |-> {"TOOL_ACTIVATED", "TOOL_CANCEL"},
    System |-> {"PAGE_RELOAD"} ]

TYPE_TO_CATEGORY ==
  [ t \in UNION {CATEGORY_TYPES[c] : c \in DOMAIN CATEGORY_TYPES} |->
      CHOOSE c \in DOMAIN CATEGORY_TYPES : t \in CATEGORY_TYPES[c] ]

(* TYPE_TO_CATEGORY[type] ?? "System" *)
getCategory(type) ==
  LET v == Get(TYPE_TO_CATEGORY, type)
  IN  IF v = Undefined THEN "System" ELSE v[1]

(* e.error != null && e.error !== "" *)
HasError(e) == e.error # Undefined /\ e.error[1] # ""

isEventError(e) ==
  \/ e.type = "PROMPT_ERROR"
  \/ e.type = "TOOL_RESULT_AI" /\ HasError(e)

getEventStatus(e) ==
  CASE e.type = "PROMPT_ERROR" -> [label |-> "error", color |-> "#f44336"]
    [] e.type \in {"PROMPT_RESPONSE", "STREAM_END"} ->
         [label |-> "ok", color |-> "#4caf50"]
    [] e.type = "TOOL_RESULT_AI" ->
         IF HasError(e) THEN [label |-> "error", color |-> "#f44336"]
         ELSE IF e.result = Undefined THEN [label |-> "empty", color |-> "#ff9800"]
         ELSE [label |-> "ok", color |-> "#4caf50"]
    [] e.type \in {"PROMPT_SENT", "STREAM_START", "TOOL_CALL"} ->
         [label |-> "sent", color |-> "#ff9800"]
    [] e.type = "SESSION_CREATED" -> [label |-> "new", color |-> "#2196f3"]
    [] e.type = "TOOL_REGISTERED" -> [label |-> "+", color |-> "#4caf50"]
    [] e.type = "TOOL_UNREGISTERED" -> [label |-> "-", color |-> "#f44336"]
    [] e.type = "CONTEXT_CLEARED" -> [label |-> "clear", color |-> "#ff5722"]
    [] e.type = "PAGE_RELOAD" -> [label |-> "reload", color |-> "#607d8b"]
    [] OTHER -> [label |-> "--", color |-> "#999"]

-----------------------------------------------------------------------------
(* Pairing tables and correlation key *)

(* Mutant of REQUEST_PAIR: the closing kinds of the prompt pairing are     *)
(* listed as requests too.                                                 *)
REQUEST_PAIR_WithClosingKinds ==
  [ PROMPT_SENT |-> "prompt", STREAM_START |-> "stream", TOOL_CALL |-> "tool",
    PROMPT_RESPONSE |-> "prompt", PROMPT_ERROR |-> "prompt" ]

REQUEST_PAIR ==
  [ PROMPT_SENT |-> "prompt", STREAM_START |-> "stream", TOOL_CALL |-> "tool" ]

RESPONSE_PAIR ==
  [ PROMPT_RESPONSE |-> "prompt", PROMPT_ERROR |-> "prompt",
    STREAM_END |-> "stream", TOOL_RESULT_AI |-> "tool" ]

(* Mutant of matchKey: the tool name is left out of the key. *)
matchKey_WithoutTool(event, pairType) ==
  pairType \o ":" \o StringOrEmpty(event.sessionId)

matchKey(event, pairType) ==
  LET sid == StringOrEmpty(event.sessionId)
  IN  IF pairType = "tool"
      THEN "tool:" \o sid \o ":" \o StringOrEmpty(event.tool)
      ELSE pairType \o ":" \o sid

-----------------------------------------------------------------------------
(* Input events *)

Ev(type, sessionId, tool, error, result, ts) ==
  [ type |-> type, sessionId |-> sessionId, tool |-> tool,
    error |-> error, result |-> result, ts |-> ts ]

Tools == {"x", "y"}

(* Streams of one session: the three pairings, two tools, a tool result    *)
(* with and without an error, a listed standalone kind, an unlisted kind   *)
(* and a kind named like an inherited object property; and a prompt whose  *)
(* events carry no sessionId, resp. the empty sessionId.                   *)
CoreEvents ==
  {Ev(t, <<"a">>, Undefined, Undefined, Undefined, Undefined) :
     t \in {"PROMPT_SENT", "STREAM_START", "constructor"}}
  \cup {Ev(t, <<"a">>, Undefined, Undefined, <<"r">>, Undefined) :
     t \in {"PROMPT_RESPONSE", "STREAM_END"}}
  \cup {Ev("PROMPT_ERROR", <<"a">>, Undefined, <<"boom">>, Undefined, Undefined)}
  \cup {Ev("TOOL_CALL", <<"a">>, <<tl>>, Undefined, Undefined, Undefined) :
     tl \in Tools}
  \cup {Ev("TOOL_RESULT_AI", <<"a">>, <<tl>>, Undefined, <<"r">>, Undefined) :
     tl \in Tools}
  \cup {Ev("TOOL_RESULT_AI", <<"a">>, <<"x">>, err, Undefined, Undefined) :
     err \in {<<"">>, <<"boom">>}}
  \cup {Ev(t, Undefined, Undefined, Undefined, Undefined, Undefined) :
     t \in {"PAGE_RELOAD", "CUSTOM", "PROMPT_SENT"}}
  \cup {Ev("PROMPT_RESPONSE", <<"">>, Undefined, Undefined, <<"r">>, Undefined)}

(* Timestamps an event may carry. *)
Timestamps == {100, 150, 2100}

(* Streams of one prompt session and one tool, every event with or without *)
(* a timestamp; timestamps need not follow the order of the stream.        *)
TimedEvents ==
  {Ev(t, <<"a">>, Undefined, Undefined, Undefined, ts) :
     t \in {"PROMPT_SENT", "PROMPT_RESPONSE"},
     ts \in {Undefined} \cup {<<n>> : n \in Timestamps}}
  \cup {Ev(t, <<"a">>, <<"x">>, Undefined, Undefined, <<n>>) :
     t \in {"TOOL_CALL", "TOOL_RESULT_AI"}, n \in {100, 150}}

(* Streams whose events lack a sessionId or a tool, carry the empty        *)
(* sessionId, or carry a colon in the sessionId or the tool.               *)
KeyEvents ==
  {Ev(t, sid, Undefined, Undefined, Undefined, Undefined) :
     t \in {"PROMPT_SENT", "PROMPT_RESPONSE"},
     sid \in {Undefined, <<"">>, <<"a">>}}
  \cup {Ev(t, st[1], st[2], Undefined, Undefined, Undefined) :
     t \in {"TOOL_CALL", "TOOL_RESULT_AI"},
     st \in { <<<<"a">>, <<"b:c">>>>, <<<<"a:b">>, <<"c">>>>,
              <<Undefined, Undefined>>, <<Undefined, <<"x">>>> }}

-----------------------------------------------------------------------------
(* mergeEvents *)

NoResponse == 0

(* pending.get(key) !== undefined *)
PendingHas(p, key) == key \in DOMAIN p

(* Mutant of PendingDelete: the key stays in the table. *)
PendingDelete_Forgotten(p, key) == p

(* Mutant of PendingDelete: the whole table is cleared. *)
PendingDelete_ClearsAll(p, key) == [k \in {} |-> 0]

(* pending.delete(key) *)
PendingDelete(p, key) == [k \in DOMAIN p \ {key} |-> p[k]]

(* Mutant of PendingSet: the opening event is not registered. *)
PendingSet_Forgotten(p, key, idx) == p

(* Mutant of PendingSet: a key that is already pending keeps its entry. *)
PendingSet_KeepFirst(p, key, idx) ==
  [k \in DOMAIN p \cup {key} |-> IF k \in DOMAIN p THEN p[k] ELSE idx]

(* pending.set(key, idx) *)
PendingSet(p, key, idx) ==
  [k \in DOMAIN p \cup {key} |-> IF k = key THEN idx ELSE p[k]]

(* Mutant of AttachResponse: the closing event is also pushed as an entry. *)
AttachResponse_AndPush(es, idx, pos) ==
  Append([es EXCEPT ![idx + 1].response = pos],
         [id |-> Len(es), request |-> pos, response |-> 0])

(* entries[idx].response = event   (idx is 0-based, as in the code) *)
AttachResponse(es, idx, pos) == [es EXCEPT ![idx + 1].response = pos]

(* Mutant of PushEntry: the new entry is put in front. *)
PushEntry_Unshift(es, id, pos) ==
  <<[id |-> id, request |-> pos, response |-> 0]>> \o es

(* Mutant of PushEntry: the id is the index of the event in the input. *)
PushEntry_IdIsEventIndex(es, id, pos) ==
  Append(es, [id |-> pos - 1, request |-> pos, response |-> 0])

(* entries.push({ id: nextId++, request: event }) *)
PushEntry(es, id, pos) ==
  Append(es, [id |-> id, request |-> pos, response |-> NoResponse])

(* The closing branch of the loop body is taken: RESPONSE_PAIR[event.type]  *)
(* is truthy and its key is pending.                                        *)
Matches(event) ==
  LET resPair == Get(RESPONSE_PAIR, event.type)
  IN  /\ resPair # Undefined
      /\ PendingHas(pending, matchKey(event, resPair[1]))

(* Loop iteration that ends at `continue`. *)
Absorb(event) ==
  /\ Len(events) < MaxLen
  /\ Matches(event)
  /\ LET key == matchKey(event, Get(RESPONSE_PAIR, event.type)[1])
     IN  /\ entries' = AttachResponse(entries, pending[key], Len(events) + 1)
         /\ pending' = PendingDelete(pending, key)
  /\ events' = Append(events, event)
  /\ UNCHANGED nextId

(* Loop iteration that pushes a new entry. *)
Create(event) ==
  /\ Len(events) < MaxLen
  /\ ~Matches(event)
  /\ LET idx     == Len(entries)
         reqPair == Get(REQUEST_PAIR, event.type)
     IN  /\ entries' = PushEntry(entries, nextId, Len(events) + 1)
         /\ nextId' = nextId + 1
         /\ pending' = IF reqPair # Undefined
                       THEN PendingSet(pending, matchKey(event, reqPair[1]), idx)
                       ELSE pending
  /\ events' = Append(events, event)

Init ==
  /\ events = <<>>
  /\ entries = <<>>
  /\ pending = [k \in {} |-> 0]
  /\ nextId = 0

Next == \E event \in CoreEvents : Absorb(event) \/ Create(event)

Spec == Init /\ [][Next]_vars

(* The pass over streams of timestamped events. *)
NextTimed == \E event \in TimedEvents : Absorb(event) \/ Create(event)

SpecTimed == Init /\ [][NextTimed]_vars

(* The pass over streams of events with missing or unusual key fields. *)
NextKeys == \E event \in KeyEvents : Absorb(event) \/ Create(event)

SpecKeys == Init /\ [][NextKeys]_vars

-----------------------------------------------------------------------------
(* mergeEvents as a function of the whole input array *)

(* The locals of mergeEvents before the loop. *)
InitialLocals == [entries |-> <<>>, pending |-> [k \in {} |-> 0], nextId |-> 0]

(* One iteration of the loop on the locals st, for the event at index pos. *)
LoopBody(st, event, pos) ==
  LET resPair == Get(RESPONSE_PAIR, event.type)
      reqPair == Get(REQUEST_PAIR, event.type)
  IN  IF resPair # Undefined /\ PendingHas(st.pending, matchKey(event, resPair[1]))
      THEN LET key == matchKey(event, resPair[1])
           IN  [ entries |-> AttachResponse(st.entries, st.pending[key], pos),
                 pending |-> PendingDelete(st.pending, key),
                 nextId  |-> st.nextId ]
      ELSE [ entries |-> PushEntry(st.entries, st.nextId, pos),
             pending |-> IF reqPair # Undefined
                         THEN PendingSet(st.pending, matchKey(event, reqPair[1]),
                                         Len(st.entries))
                         ELSE st.pending,
             nextId  |-> st.nextId + 1 ]

RECURSIVE LoopOver(_)
(* The locals after the loop has run over the array evs. *)
LoopOver(evs) ==
  IF evs = <<>> THEN InitialLocals
  ELSE LoopBody(LoopOver(SubSeq(evs, 1, Len(evs) - 1)), evs[Len(evs)], Len(evs))

mergeEvents(evs) == LoopOver(evs).entries

-----------------------------------------------------------------------------
(* Entry-level helpers *)

Request(e) == events[e.request]

HasResponse(e) == e.response # NoResponse

Response(e) == events[e.response]

getEntryCategory(e) == getCategory(Request(e).type)

getEntryStatus(e) ==
  IF HasResponse(e) THEN getEventStatus(Response(e))
  ELSE IF Get(REQUEST_PAIR, Request(e).type) # Undefined
       THEN [label |-> "pending", color |-> "#ff9800"]
  ELSE getEventStatus(Request(e))

Null == <<>>

(* `${ms} ms` below 1000, else `${(ms / 1000).toFixed(2)} s`: the number   *)
(* printed and its unit; seconds are kept in hundredths, the two decimals  *)
(* toFixed(2) prints (rounded to nearest).                                 *)
FormatDuration(ms) ==
  IF ms < 1000 THEN [value |-> ms, unit |-> "ms"]
  ELSE [value |-> (ms + 5) \div 10, unit |-> "s/100"]

(* Mutant of getEntryDuration: start and end are exchanged. *)
getEntryDuration_Swapped(e) ==
  IF ~HasResponse(e) THEN Null
  ELSE IF Request(e).ts = Undefined \/ Response(e).ts = Undefined THEN Null
  ELSE <<FormatDuration(Request(e).ts[1] - Response(e).ts[1])>>

getEntryDuration(e) ==
  IF ~HasResponse(e) THEN Null
  ELSE LET start == Request(e).ts
           end   == Response(e).ts
       IN  IF start = Undefined \/ end = Undefined THEN Null
           ELSE <<FormatDuration(end[1] - start[1])>>

(* Mutant of isEntryFailed: an unanswered request does not count. *)
isEntryFailed_ErrorsOnly(e) ==
  \/ HasResponse(e) /\ isEventError(Response(e))
  \/ isEventError(Request(e))

isEntryFailed(e) ==
  \/ HasResponse(e) /\ isEventError(Response(e))
  \/ isEventError(Request(e))
  \/ Get(REQUEST_PAIR, Request(e).type) # Undefined /\ ~HasResponse(e)

-----------------------------------------------------------------------------
(* Vocabulary of the properties below *)

Positions == 1..Len(events)

EntryIndexes == 1..Len(entries)

OpeningKinds == {"PROMPT_SENT", "STREAM_START", "TOOL_CALL"}

ClosingKinds == {"PROMPT_RESPONSE", "PROMPT_ERROR", "STREAM_END", "TOOL_RESULT_AI"}

IsOpening(p) == events[p].type \in OpeningKinds

IsClosing(p) == events[p].type \in ClosingKinds

(* Correlation key of the opening or closing event at position p. *)
KeyOf(p) ==
  IF IsOpening(p) THEN matchKey(events[p], REQUEST_PAIR[events[p].type])
  ELSE IF IsClosing(p) THEN matchKey(events[p], RESPONSE_PAIR[events[p].type])
  ELSE ""

(* Some closing, resp. opening, event of the key of p lies strictly        *)
(* between positions p and q.                                              *)
ClosingBetween(p, q) ==
  \E r \in Positions : p < r /\ r < q /\ IsClosing(r) /\ KeyOf(r) = KeyOf(p)

OpeningBetween(p, q) ==
  \E r \in Positions : p < r /\ r < q /\ IsOpening(r) /\ KeyOf(r) = KeyOf(p)

(* Opening event at p, closing event of the same key at q, later. *)
OpenThenClose(p, q) ==
  p < q /\ IsOpening(p) /\ IsClosing(q) /\ KeyOf(p) = KeyOf(q)

(* The entry created for the event at p has the event at q as response. *)
Paired(p, q) ==
  \E i \in EntryIndexes : entries[i].request = p /\ entries[i].response = q

-----------------------------------------------------------------------------
(* C1 as stated: an opening event followed by a closing event of the same  *)
(* key, with no other closing event of that key between them, has that     *)
(* closing event as the response of its entry.                             *)
C1_PairedWhenNoClosingBetween ==
  \A p, q \in Positions :
    OpenThenClose(p, q) /\ ~ClosingBetween(p, q) => Paired(p, q)

(* C1 amended: the same, when in addition no other opening event of that   *)
(* key lies between the two (a later opening of the key takes over the     *)
(* pending slot).                                                          *)
C1_PairedWhenNothingBetween ==
  \A p, q \in Positions :
    OpenThenClose(p, q) /\ ~ClosingBetween(p, q) /\ ~OpeningBetween(p, q)
      => Paired(p, q)

(* C1 witness: a pair is formed across intervening events, after an        *)
(* earlier opening of the same key was left behind.                        *)
C1_Witness ==
  \E o, p, q \in Positions :
    /\ o < p /\ p + 1 < q
    /\ IsOpening(o) /\ KeyOf(o) = KeyOf(p)
    /\ OpenThenClose(p, q) /\ ~ClosingBetween(o, q) /\ ~OpeningBetween(p, q)
    /\ Paired(p, q)

(* Positions of the closing events that are the response of an entry. *)
AbsorbedClosing ==
  {q \in Positions : IsClosing(q) /\ \E i \in EntryIndexes : entries[i].response = q}

(* C2 as stated: the output is no longer than the input, and its length is *)
(* the input length minus the number of closing events that were absorbed  *)
(* as a response.                                                          *)
C2_LengthIsInputMinusAbsorbedClosing ==
  /\ Len(entries) <= Len(events)
  /\ Len(entries) = Len(events) - Cardinality(AbsorbedClosing)

(* C3: an opening event with no later closing event of its key has an      *)
(* entry without response, which is failed and has status "pending".       *)
C3_UnansweredOpeningIsPending ==
  \A p \in Positions :
    IsOpening(p) /\ ~(\E q \in Positions : OpenThenClose(p, q))
      => \E i \in EntryIndexes :
           /\ entries[i].request = p
           /\ ~HasResponse(entries[i])
           /\ isEntryFailed(entries[i])
           /\ getEntryStatus(entries[i]).label = "pending"

(* C3 witness: an unanswered opening event followed by a closing event of  *)
(* another key and by a pair that completes.                               *)
C3_Witness ==
  \E p, q \in Positions :
    /\ IsOpening(p) /\ ~(\E r \in Positions : OpenThenClose(p, r))
    /\ p < q /\ IsClosing(q)
    /\ \E i \in EntryIndexes : entries[i].request > p /\ HasResponse(entries[i])

-----------------------------------------------------------------------------
(* One step keeps every entry, its request, and its response if it has one. *)
EntriesKeepRequestAndResponse ==
  /\ Len(entries') >= Len(entries)
  /\ \A i \in EntryIndexes :
       /\ entries'[i].request = entries[i].request
       /\ HasResponse(entries[i]) => entries'[i].response = entries[i].response

(* C4: in every step of the pass, the entries that exist keep their        *)
(* request, and an entry that has a response keeps that response; no entry *)
(* is removed.                                                             *)
C4_RequestFixedResponseSetOnce == [][EntriesKeepRequestAndResponse]_vars

(* C4 witness: an entry received its response and a further closing event  *)
(* of the same key arrived after it.                                       *)
C4_Witness ==
  \E i \in EntryIndexes : \E q \in Positions :
    /\ HasResponse(entries[i])
    /\ entries[i].response < q
    /\ IsClosing(q) /\ KeyOf(q) = KeyOf(entries[i].request)

C6_CreationOrder ==
  /\ \A i, j \in EntryIndexes :
       i < j => entries[i].request < entries[j].request
  /\ \A i, j \in EntryIndexes :
       HasResponse(entries[i]) => entries[j].request # entries[i].response

(* C6 witness: two entries whose responses arrived in the opposite order   *)
(* of their creation.                                                      *)
C6_Witness ==
  \E i, j \in EntryIndexes :
    /\ i < j
    /\ HasResponse(entries[i]) /\ HasResponse(entries[j])
    /\ entries[j].response < entries[i].response

(* Ids count the entries from 0; a step keeps the ids that exist. *)
IdsArePositions == \A i \in EntryIndexes : entries[i].id = i - 1

IdsUnchanged ==
  \A i \in EntryIndexes : i <= Len(entries') /\ entries'[i].id = entries[i].id

(* C7: the entry at output position i (0-based) has id i, so ids are        *)
(* distinct and increasing, and no step changes the id of an existing      *)
(* entry.                                                                  *)
C7_IdsArePositionsAndStable == []IdsArePositions /\ [][IdsUnchanged]_vars

(* C7 witness: entries were created after an event was absorbed, so ids    *)
(* and input positions differ.                                             *)
C7_Witness ==
  \E i, j \in EntryIndexes :
    /\ i < j
    /\ HasResponse(entries[i])
    /\ entries[i].response < entries[j].request
    /\ HasResponse(entries[j])

(* The stream is two TOOL_CALL events of one session and different tools   *)
(* and one TOOL_RESULT_AI for each tool, each after its own call.          *)
TwoCallsTwoResults ==
  /\ Len(events) = 4
  /\ \E c1, c2, r1, r2 \in Positions :
       /\ {c1, c2, r1, r2} = Positions
       /\ events[c1].type = "TOOL_CALL" /\ events[c2].type = "TOOL_CALL"
       /\ events[r1].type = "TOOL_RESULT_AI" /\ events[r2].type = "TOOL_RESULT_AI"
       /\ events[c1].tool # events[c2].tool
       /\ events[r1].tool = events[c1].tool /\ events[r2].tool = events[c2].tool
       /\ \A p, q \in Positions : events[p].sessionId = events[q].sessionId
       /\ c1 < r1 /\ c2 < r2

(* C8: every such stream, in any interleaving, merges into two entries,    *)
(* each call with the result that carries its own tool name.               *)
C8_DifferentToolsPairIndependently ==
  TwoCallsTwoResults =>
    /\ Len(entries) = 2
    /\ \A i \in EntryIndexes :
         /\ Request(entries[i]).type = "TOOL_CALL"
         /\ HasResponse(entries[i])
         /\ Response(entries[i]).type = "TOOL_RESULT_AI"
         /\ Response(entries[i]).tool = Request(entries[i]).tool

(* C8 witness: such a stream in which both calls precede both results and  *)
(* the results arrive in the opposite order of the calls.                  *)
C8_Witness ==
  /\ TwoCallsTwoResults
  /\ events[1].type = "TOOL_CALL" /\ events[2].type = "TOOL_CALL"
  /\ events[3].tool = events[2].tool
  /\ Len(entries) = 2

-----------------------------------------------------------------------------
(* The types CATEGORY_TYPES lists. *)
ListedTypes == UNION {CATEGORY_TYPES[c] : c \in DOMAIN CATEGORY_TYPES}

(* C9 as stated: getCategory returns one of the five categories for every  *)
(* type, and System for every type that CATEGORY_TYPES does not list.      *)
C9_CategoryTotalDefaultSystem ==
  \A p \in Positions :
    /\ getCategory(events[p].type) \in EventCategory
    /\ events[p].type \notin ListedTypes => getCategory(events[p].type) = "System"

(* An error event: PROMPT_ERROR, or a tool result with a non-empty error. *)
IsErrorEvent(e) ==
  \/ e.type = "PROMPT_ERROR"
  \/ e.type = "TOOL_RESULT_AI" /\ e.error \notin {<<>>, <<"">>}

(* C10 as stated: an entry is failed exactly when its response is an error *)
(* event, or its request is an error event, or its request is an opening   *)
(* kind and it has no response.                                            *)
C10_FailedExactlyWhen ==
  \A i \in EntryIndexes :
    isEntryFailed(entries[i]) <=>
      \/ HasResponse(entries[i]) /\ IsErrorEvent(Response(entries[i]))
      \/ IsErrorEvent(Request(entries[i]))
      \/ Request(entries[i]).type \in OpeningKinds /\ ~HasResponse(entries[i])

-----------------------------------------------------------------------------
(* C11 as stated: the status of an entry is the status of its response     *)
(* when it has one, else "pending" when its request is an opening kind,    *)
(* else the status of its request; so no entry shows the label "sent".     *)
C11_StatusByCases ==
  \A i \in EntryIndexes :
    /\ getEntryStatus(entries[i]) =
         IF HasResponse(entries[i]) THEN getEventStatus(Response(entries[i]))
         ELSE IF Request(entries[i]).type \in OpeningKinds
              THEN [label |-> "pending", color |-> "#ff9800"]
         ELSE getEventStatus(Request(entries[i]))
    /\ getEntryStatus(entries[i]).label # "sent"

(* Timestamps do not decrease along the stream. *)
TimeOrdered ==
  \A p, q \in Positions :
    p < q /\ events[p].ts # Undefined /\ events[q].ts # Undefined
      => events[p].ts[1] <= events[q].ts[1]

(* The entry has a response and both of its events carry a timestamp. *)
BothTimed(e) ==
  HasResponse(e) /\ Request(e).ts # Undefined /\ Response(e).ts # Undefined

(* C12 as stated: the duration of every entry whose request and response   *)
(* carry timestamps is non-negative, the response being later in the       *)
(* input; the duration is null without response or without a timestamp.    *)
C12_DurationNonNegative ==
  \A i \in EntryIndexes :
    /\ HasResponse(entries[i]) => entries[i].request < entries[i].response
    /\ BothTimed(entries[i]) <=> getEntryDuration(entries[i]) # Null
    /\ BothTimed(entries[i]) => getEntryDuration(entries[i])[1].value >= 0

(* C12 amended: the same, the duration being non-negative when the         *)
(* timestamps do not decrease along the stream.                            *)
C12_DurationNonNegativeWhenTimeOrdered ==
  \A i \in EntryIndexes :
    /\ HasResponse(entries[i]) => entries[i].request < entries[i].response
    /\ BothTimed(entries[i]) <=> getEntryDuration(entries[i]) # Null
    /\ BothTimed(entries[i]) /\ TimeOrdered
         => getEntryDuration(entries[i])[1].value >= 0

(* C12 witness: a time-ordered stream with a pair that took time, printed  *)
(* in seconds, and an entry whose response carries no timestamp.           *)
C12_Witness ==
  /\ TimeOrdered
  /\ \E i, j \in EntryIndexes :
       /\ BothTimed(entries[i])
       /\ getEntryDuration(entries[i])[1] = [value |-> 200, unit |-> "s/100"]
       /\ HasResponse(entries[j]) /\ getEntryDuration(entries[j]) = Null

-----------------------------------------------------------------------------
(* The opening event at p is the last opening event of its key. *)
LastOpening(p) ==
  IsOpening(p) /\ ~(\E r \in Positions : p < r /\ IsOpening(r) /\ KeyOf(r) = KeyOf(p))

(* The entry indexes (0-based) the pending table refers to. *)
PendingTargets == {pending[k] : k \in DOMAIN pending}

(* The opening event at o is superseded by the one at p: same key, later,  *)
(* and no closing event of the key between them.                           *)
Superseded(o, p) ==
  /\ o < p /\ IsOpening(o) /\ IsOpening(p) /\ KeyOf(o) = KeyOf(p)
  /\ ~ClosingBetween(o, p)

(* C13: an opening event whose key is already pending gets an entry of its *)
(* own and takes over the pending slot: a pending key of an opening kind   *)
(* refers to the entry of the last opening event of that key; the next     *)
(* closing event of the key is attached to the superseding entry; and the  *)
(* superseded entry has no response, whatever follows.                     *)
C13_LastWriterWins ==
  /\ \A p \in Positions :
       IsOpening(p) /\ KeyOf(p) \in DOMAIN pending
         => /\ pending[KeyOf(p)] + 1 \in EntryIndexes
            /\ LastOpening(entries[pending[KeyOf(p)] + 1].request)
            /\ KeyOf(entries[pending[KeyOf(p)] + 1].request) = KeyOf(p)
  /\ \A o, p \in Positions :
       Superseded(o, p)
         => /\ \E i, j \in EntryIndexes :
                 i # j /\ entries[i].request = o /\ entries[j].request = p
            /\ \A i \in EntryIndexes :
                 entries[i].request = o => ~HasResponse(entries[i])
            /\ \A q \in Positions :
                 OpenThenClose(p, q) /\ ~ClosingBetween(p, q) /\ ~OpeningBetween(p, q)
                   => Paired(p, q)

(* C13 witness: an opening event was superseded, the superseding entry got *)
(* the response, and the key was opened once more after that.              *)
C13_Witness ==
  \E o, p, q, r \in Positions :
    /\ Superseded(o, p) /\ Paired(p, q) /\ q < r
    /\ IsOpening(r) /\ KeyOf(r) = KeyOf(o)
    /\ KeyOf(r) \in DOMAIN pending

(* A closing event arrives while its key is not pending and becomes an     *)
(* entry of its own; the pending table is left as it is.                   *)
OrphanBecomesEntry ==
  LET event == events'[Len(events')]
  IN  /\ event.type \in ClosingKinds
      /\ matchKey(event, RESPONSE_PAIR[event.type]) \notin DOMAIN pending
      => /\ Len(entries') = Len(entries) + 1
         /\ entries'[Len(entries')].request = Len(events')
         /\ entries'[Len(entries')].response = NoResponse
         /\ pending' = pending

(* Entries whose request is a closing event are not pending and have no    *)
(* response.                                                               *)
OrphansStayAlone ==
  \A i \in EntryIndexes :
    IsClosing(entries[i].request)
      => ~HasResponse(entries[i]) /\ (i - 1) \notin PendingTargets

(* C14: a closing event whose key is not pending becomes a standalone      *)
(* entry with that event as request, is not registered as pending and      *)
(* never receives a response.                                              *)
C14_OrphanClosingStandsAlone == []OrphansStayAlone /\ [][OrphanBecomesEntry]_vars

(* C14 witness: an orphan closing event, then an opening event and a       *)
(* closing event of the same key.                                          *)
C14_Witness ==
  \E i, j \in EntryIndexes :
    /\ i < j
    /\ IsClosing(entries[i].request)
    /\ IsOpening(entries[j].request)
    /\ KeyOf(entries[j].request) = KeyOf(entries[i].request)
    /\ HasResponse(entries[j])

(* C15 as stated: an event that is neither an opening nor a closing kind   *)
(* is the request of exactly one entry, which is not pending and has no    *)
(* response, and it is the response of no entry.                           *)
C15_OtherKindsStandAlone ==
  \A p \in Positions :
    ~IsOpening(p) /\ ~IsClosing(p)
      => /\ Cardinality({i \in EntryIndexes : entries[i].request = p}) = 1
         /\ \A i \in EntryIndexes :
              entries[i].request = p
                => ~HasResponse(entries[i]) /\ (i - 1) \notin PendingTargets
         /\ \A i \in EntryIndexes : entries[i].response # p

(* C16 as stated: every entry whose request is an opening kind and which   *)
(* has no response is the target of a pending key.                         *)
C16_UnresolvedOpeningIsPending ==
  \A i \in EntryIndexes :
    IsOpening(entries[i].request) /\ ~HasResponse(entries[i])
      => (i - 1) \in PendingTargets

(* C16 amended: every entry whose request is the last opening event of its *)
(* key and which has no response is the target of the pending key of its   *)
(* request.                                                                *)
C16_LastUnresolvedOpeningIsPending ==
  \A i \in EntryIndexes :
    LastOpening(entries[i].request) /\ ~HasResponse(entries[i])
      => /\ KeyOf(entries[i].request) \in DOMAIN pending
         /\ pending[KeyOf(entries[i].request)] = i - 1

(* C16 witness: two unresolved openings of different keys are pending      *)
(* while a pair of a third key was completed between them.                 *)
C16_Witness ==
  \E i, j, k \in EntryIndexes :
    /\ i < j /\ j < k
    /\ LastOpening(entries[i].request) /\ ~HasResponse(entries[i])
    /\ IsOpening(entries[j].request) /\ HasResponse(entries[j])
    /\ LastOpening(entries[k].request) /\ ~HasResponse(entries[k])
    /\ {i - 1, k - 1} \subseteq PendingTargets

-----------------------------------------------------------------------------
(* Pair-type of an opening or closing event. *)
PairTypeOf(e) ==
  IF e.type \in OpeningKinds THEN REQUEST_PAIR[e.type] ELSE RESPONSE_PAIR[e.type]

IsPairable(p) == IsOpening(p) \/ IsClosing(p)

(* The event at p with the empty string as sessionId. *)
WithEmptySession(p) == [events[p] EXCEPT !.sessionId = <<"">>]

(* C17: an opening or closing event without sessionId has the key of the   *)
(* same event with the empty sessionId; an opening and a later closing     *)
(* event of one pair-type that both lack a sessionId (and, for tools,      *)
(* carry the same tool or both none) share a key, and the closing event is *)
(* attached to the entry of the opening event when no event of that key    *)
(* lies between them.                                                      *)
C17_MissingSessionIsEmptyKey ==
  /\ \A p \in Positions :
       IsPairable(p) /\ events[p].sessionId = Undefined
         => KeyOf(p) = matchKey(WithEmptySession(p), PairTypeOf(events[p]))
  /\ \A p, q \in Positions :
       /\ p < q /\ IsOpening(p) /\ IsClosing(q)
       /\ events[p].sessionId = Undefined /\ events[q].sessionId = Undefined
       /\ PairTypeOf(events[p]) = PairTypeOf(events[q])
       /\ PairTypeOf(events[p]) = "tool" => events[p].tool = events[q].tool
       => /\ KeyOf(p) = KeyOf(q)
          /\ ~ClosingBetween(p, q) /\ ~OpeningBetween(p, q) => Paired(p, q)

(* C17 witness: two opening events without sessionId, the first            *)
(* superseded, and a closing event without sessionId attached to the       *)
(* second.                                                                 *)
C17_Witness ==
  \E o, p, q \in Positions :
    /\ Superseded(o, p) /\ Paired(p, q)
    /\ events[o].sessionId = Undefined /\ events[p].sessionId = Undefined
    /\ events[q].sessionId = Undefined

(* (pair-type, sessionId, tool) of an opening or closing event; the tool   *)
(* counts for the tool pair-type only.                                     *)
Triple(e) ==
  <<PairTypeOf(e), e.sessionId, IF PairTypeOf(e) = "tool" THEN e.tool ELSE Undefined>>

(* C18 as stated: in every entry with a response, the request is an        *)
(* opening kind, the response a closing kind of the same pair-type, with   *)
(* the same sessionId and, for tools, the same tool, and later in the      *)
(* input; and events of distinct (pair-type, sessionId, tool) have         *)
(* distinct keys.                                                          *)
C18_ResponseMatchesRequest ==
  /\ \A i \in EntryIndexes :
       HasResponse(entries[i])
         => /\ IsOpening(entries[i].request) /\ IsClosing(entries[i].response)
            /\ Triple(Request(entries[i])) = Triple(Response(entries[i]))
            /\ entries[i].request < entries[i].response
  /\ \A p, q \in Positions :
       IsPairable(p) /\ IsPairable(q) /\ Triple(events[p]) # Triple(events[q])
         => KeyOf(p) # KeyOf(q)

-----------------------------------------------------------------------------
(* C19: every input event is the request of exactly one entry or the       *)
(* response of exactly one entry, not both, and every request and response *)
(* of the output is an input event.                                        *)
C19_NoEventLostOrDuplicated ==
  /\ \A p \in Positions :
       Cardinality({i \in EntryIndexes : entries[i].request = p})
         + Cardinality({i \in EntryIndexes : entries[i].response = p}) = 1
  /\ \A i \in EntryIndexes :
       /\ entries[i].request \in Positions
       /\ HasResponse(entries[i]) => entries[i].response \in Positions

(* C19 witness: a stream with an absorbed closing event, an orphan closing *)
(* event and an event of a kind that is not paired.                        *)
C19_Witness ==
  \E i, j, k \in EntryIndexes :
    /\ IsOpening(entries[i].request) /\ HasResponse(entries[i])
    /\ IsClosing(entries[j].request)
    /\ ~IsPairable(entries[k].request)

(* The pass of the model computes mergeEvents(events). *)
PassComputesMergeEvents ==
  LoopOver(events) = [entries |-> entries, pending |-> pending, nextId |-> nextId]

(* The entries new extend the entries old: same ids and requests at the    *)
(* same places, and the responses that old has.                            *)
Extends(new, old) ==
  /\ Len(old) <= Len(new)
  /\ \A i \in 1..Len(old) :
       /\ new[i].id = old[i].id
       /\ new[i].request = old[i].request
       /\ old[i].response # NoResponse => new[i].response = old[i].response

(* C20: for every prefix s of the stream, the result of mergeEvents on the *)
(* whole stream extends the result of mergeEvents on s.                    *)
C20_RerunExtendsEarlierResult ==
  LET whole == mergeEvents(events)
  IN  \A n \in 0..Len(events) :
        Extends(whole, mergeEvents(SubSeq(events, 1, n)))

(* C20 witness: the extension gave a response to an entry of the earlier   *)
(* result, which held another entry before it, and appended an entry.      *)
C20_Witness ==
  \E n \in 0..Len(events) :
    LET old == mergeEvents(SubSeq(events, 1, n))
        new == mergeEvents(events)
    IN  /\ Len(old) < Len(new)
        /\ \E j \in 2..Len(old) :
             old[j].response = NoResponse /\ new[j].response # NoResponse

=============================================================================
